---- MODULE Spec2Model ----
(***************************************************************************)
(* State-machine model of the foodcourt back office: the order engine      *)
(* (OrdersService) and the payment broker (PaymentsService).  Every        *)
(* service method is split at its awaits: the step that reads the database *)
(* and the step that writes it are separate actions of a request worker,   *)
(* so that the interleavings Node's event loop allows are behaviours.      *)
(***************************************************************************)
EXTENDS Integers, Sequences, FiniteSets, TLC

\* ------------------------------------------------------------------ bounds
\* Orders the store may hold when order numbers are handed out.
MaxOrders == 3
\* Orders the store may hold when their lifecycle is followed.
MaxLiveOrders == 1
MaxShifts == 2
\* Items in one create-order request.
MaxItems == 2
\* Last tick of the wall clock.
MaxTime == 5
\* Clock ticks in one calendar day.
TicksPerDay == 2

\* ------------------------------------------------------------ fixed world
Workers == {"w1", "w2"}
None == "none"

SUPERADMIN == "SUPERADMIN"
RESTAURANT_OWNER == "RESTAURANT_OWNER"
EMPLOYEE == "EMPLOYEE"
CUSTOMER == "CUSTOMER"

\* The principals that call the services, with the role their token carries.
Users == {"admin", "owner1", "owner2", "emp1", "cust1", "cust2"}
\* The restaurant an employee's Employee row connects the user to.
EmployeeRestaurant(u) == "r1"

RoleOf(u) ==
  CASE u = "admin" -> SUPERADMIN
    [] u \in {"owner1", "owner2"} -> RESTAURANT_OWNER
    [] u = "emp1" -> EMPLOYEE
    [] OTHER -> CUSTOMER

\* The accounts of the user table: the callers above and a second account that
\* a superadmin can promote. The seed gives each the role of its token.
Accounts == Users \cup {"admin2"}
SeedUsers == [u \in Accounts |-> RoleOf(u)]
\* The seeded employee: emp1 works at r1.
SeedEmployees ==
  <<[userId |-> "emp1", restaurantId |-> EmployeeRestaurant("emp1"),
     phone |-> "ph1", isActive |-> TRUE]>>

\* Restaurant rows: r1 and r2 take orders, r3 is closed.
Restaurants == {"r1", "r2", "r3"}
RestaurantRow(r) ==
  CASE r = "r1" -> [ownerId |-> "owner1", status |-> "ACTIVE", foodcourtId |-> "f1"]
    [] r = "r2" -> [ownerId |-> "owner2", status |-> "ACTIVE", foodcourtId |-> "f2"]
    [] OTHER -> [ownerId |-> "owner1", status |-> "CLOSED", foodcourtId |-> "f1"]

\* Table rows: the foodcourt each table stands in.
Tables == {"t1", "t2"}
TableFoodcourt(t) == IF t = "t1" THEN "f1" ELSE "f2"

\* Catalog read side: product rows with their category's restaurant.
Products == {"p1", "p2", "p3", "p4"}
ProductRow(p) ==
  CASE p = "p1" -> [restaurantId |-> "r1", price |-> 10, isAvailable |-> TRUE,
                    variants |-> << [name |-> "large", priceModifier |-> 5],
                                    [name |-> "small", priceModifier |-> -3] >>,
                    hasVariants |-> TRUE]
    [] p = "p2" -> [restaurantId |-> "r1", price |-> 7, isAvailable |-> TRUE,
                    variants |-> << >>, hasVariants |-> FALSE]
    [] p = "p3" -> [restaurantId |-> "r2", price |-> 4, isAvailable |-> TRUE,
                    variants |-> << >>, hasVariants |-> FALSE]
    [] OTHER -> [restaurantId |-> "r1", price |-> 3, isAvailable |-> FALSE,
                 variants |-> << >>, hasVariants |-> FALSE]

\* ---------------------------------------------------------------- statuses
PENDING == "PENDING"
PREPARING == "PREPARING"
READY == "READY"
COMPLETED == "COMPLETED"
CANCELLED == "CANCELLED"
OrderStatus == {PENDING, PREPARING, READY, COMPLETED, CANCELLED}

VARIABLES
  orders,   \* the order table: a sequence of rows, the id is the index
  now,      \* wall clock, in ticks
  tz,       \* offset of the server's local time zone from UTC, in ticks
  pc,       \* per worker: the await its request is suspended at
  loc,      \* per worker: the request's local variables
  last,     \* the response of the request that finished last
  payments, \* the payment table: a sequence of rows, the id is the index
  extIssued, \* how many payment ids the card providers have issued
  delivered, \* the webhook events the providers have delivered and the service handled
  shifts,   \* the shift table: a sequence of rows, the id is the index
  users,    \* the user table: the role of each account, None once deleted
  employees, \* the employee table: a sequence of rows, the id is the index
  invites   \* the invite link table: a sequence of rows, the id is the index

vars == <<orders, now, tz, pc, loc, last, payments, extIssued, delivered, shifts,
          users, employees, invites>>
payState == <<payments, extIssued, delivered>>
hrState == <<users, employees, invites>>

NoLoc == [op |-> None]
NoRow == [status |-> None]
NoCall == [op |-> None, ok |-> FALSE, id |-> 0, user |-> None,
           from |-> None, to |-> None, before |-> NoRow, after |-> NoRow]

\* The response of a finished request, with the row it was about as the request
\* read it and as the request left it.
Response(op, ok, id, user, from, to, before, after) ==
  [op |-> op, ok |-> ok, id |-> id, user |-> user,
   from |-> from, to |-> to, before |-> before, after |-> after]

AllIdle == \A w \in Workers : pc[w] = "idle"

\* ------------------------------------------------------------ OrdersService
NoVariant == [name |-> None, priceModifier |-> 0]

RECURSIVE FindVariant(_, _)
\* variants.find(v => v.name === item.variant): the first match, or undefined.
FindVariant(variants, name) ==
  IF variants = << >> THEN NoVariant
  ELSE IF Head(variants).name = name THEN Head(variants)
  ELSE FindVariant(Tail(variants), name)

\* itemPrice of create: base price plus the modifier of the variant found.
ItemPriceClient(item) == item.unitPrice
ItemPrice(item) ==
  LET product == ProductRow(item.productId)
      selectedVariant == FindVariant(product.variants, item.variant)
  IN IF item.variant # None /\ product.hasVariants /\ selectedVariant # NoVariant
       THEN product.price + selectedVariant.priceModifier
       ELSE product.price

\* The per-item checks of create that throw.
ItemAccepted(item, restaurantId) ==
  /\ item.productId \in Products
  /\ ProductRow(item.productId).restaurantId = restaurantId
  /\ ProductRow(item.productId).isAvailable

\* One entry of validatedItems.
ValidatedItem(item) ==
  [productId |-> item.productId, variant |-> item.variant,
   quantity |-> item.quantity, unitPrice |-> ItemPrice(item),
   totalPrice |-> ItemPrice(item) * item.quantity]

ValidatedItems(items) == [i \in DOMAIN items |-> ValidatedItem(items[i])]

RECURSIVE TotalAmount(_)
\* totalAmount of create: the running sum of the item totals.
TotalAmount(validated) ==
  IF validated = << >> THEN 0
  ELSE Head(validated).totalPrice + TotalAmount(Tail(validated))

RECURSIVE Digits(_)
\* String(n): the decimal digits of n.
Digits(n) == IF n < 10 THEN <<n>> ELSE Digits(n \div 10) \o <<n % 10>>

RECURSIVE PadStart(_, _)
\* s.padStart(len, '0'): zeros in front up to len, never a cut.
PadStart(s, len) == IF Len(s) >= len THEN s ELSE PadStart(<<0>> \o s, len)

\* today.toISOString().slice(0, 10): the calendar day of t in UTC.
UtcDay(t) == t \div TicksPerDay
\* new Date(getFullYear(), getMonth(), getDate()): the day of t in server local time.
LocalDay(t) == (t + tz) \div TicksPerDay

\* prisma.order.count of generateOrderNumber: rows of the restaurant created
\* between local midnight and the next local midnight.
DailyCount(restaurantId, t) ==
  Cardinality({i \in DOMAIN orders :
                 /\ orders[i].restaurantId = restaurantId
                 /\ LocalDay(orders[i].createdAt) = LocalDay(t)})

\* generateOrderNumber: the UTC date string and the padded daily count + 1.
GenerateOrderNumber(restaurantId, t) ==
  [date |-> UtcDay(t), seq |-> PadStart(Digits(DailyCount(restaurantId, t) + 1), 3)]

\* The checks of create before the order number is read.
CreateAccepted(dto) ==
  /\ dto.restaurantId \in Restaurants
  /\ RestaurantRow(dto.restaurantId).status = "ACTIVE"
  /\ dto.tableId # None =>
       /\ dto.tableId \in Tables
       /\ TableFoodcourt(dto.tableId) = RestaurantRow(dto.restaurantId).foodcourtId
  /\ \A i \in DOMAIN dto.items : ItemAccepted(dto.items[i], dto.restaurantId)

\* create, up to the await of generateOrderNumber's count.
CreateRead(w, dto, u, limit) ==
  /\ pc[w] = "idle"
  /\ Len(orders) < limit
  /\ IF CreateAccepted(dto)
       THEN /\ pc' = [pc EXCEPT ![w] = "create_insert"]
            /\ loc' = [loc EXCEPT ![w] =
                 [op |-> "create", dto |-> dto, user |-> u,
                  items |-> ValidatedItems(dto.items),
                  totalAmount |-> TotalAmount(ValidatedItems(dto.items)),
                  orderNumber |-> GenerateOrderNumber(dto.restaurantId, now)]]
            /\ UNCHANGED last
       ELSE /\ last' = Response("create", FALSE, 0, u, None, None, NoRow, NoRow)
            /\ UNCHANGED <<pc, loc>>
  /\ UNCHANGED <<hrState, shifts, orders, now, tz, payState>>

\* create: the transaction that inserts the order and its items.
CreateInsert(w) ==
  /\ pc[w] = "create_insert"
  /\ LET l == loc[w]
         row == [orderNumber |-> l.orderNumber, status |-> PENDING,
                 totalAmount |-> l.totalAmount, items |-> l.items,
                 specialInstructions |-> l.dto.specialInstructions,
                 restaurantId |-> l.dto.restaurantId,
                 customerId |-> IF RoleOf(l.user) = CUSTOMER THEN l.user ELSE None,
                 createdAt |-> now]
     IN /\ orders' = Append(orders, row)
        /\ last' = Response("create", TRUE, Len(orders) + 1, l.user, None, PENDING,
                            [status |-> None, request |-> l.dto], row)
  /\ pc' = [pc EXCEPT ![w] = "idle"]
  /\ loc' = [loc EXCEPT ![w] = NoLoc]
  /\ UNCHANGED <<hrState, shifts, now, tz, payState>>

\* verifyOrderAccess: whether findOne hands the order to the caller.
VerifyOrderAccess(order, u) ==
  CASE RoleOf(u) = SUPERADMIN -> TRUE
    [] RoleOf(u) = RESTAURANT_OWNER -> RestaurantRow(order.restaurantId).ownerId = u
    [] RoleOf(u) = EMPLOYEE -> TRUE
    [] OTHER -> order.customerId = u

\* findOne: the order when the caller may see it, NotFound or Forbidden otherwise.
FindOne(w, id, u) ==
  /\ pc[w] = "idle"
  /\ IF id \notin DOMAIN orders
       THEN last' = Response("findOne", FALSE, id, u, None, None, NoRow, NoRow)
       ELSE last' = Response("findOne", VerifyOrderAccess(orders[id], u), id, u,
                             orders[id].status, orders[id].status, orders[id], orders[id])
  /\ UNCHANGED <<hrState, shifts, orders, now, tz, pc, loc, payState>>

\* validTransitions with a completed order still open to cancellation.
ValidTransitionsLoose(currentStatus) ==
  CASE currentStatus = PENDING -> {PREPARING, CANCELLED}
    [] currentStatus = PREPARING -> {READY, CANCELLED}
    [] currentStatus = READY -> {COMPLETED, CANCELLED}
    [] currentStatus = COMPLETED -> {CANCELLED}
    [] OTHER -> {}

\* validTransitions of validateStatusTransition.
ValidTransitions(currentStatus) ==
  CASE currentStatus = PENDING -> {PREPARING, CANCELLED}
    [] currentStatus = PREPARING -> {READY, CANCELLED}
    [] currentStatus = READY -> {COMPLETED, CANCELLED}
    [] OTHER -> {}

\* validateStatusTransition: TRUE when it does not throw.
ValidateStatusTransition(currentStatus, newStatus) ==
  newStatus \in ValidTransitions(currentStatus)

\* The role check of updateStatus.
IsRestaurantStaff(u) == RoleOf(u) \in {SUPERADMIN, RESTAURANT_OWNER, EMPLOYEE}

\* updateStatus, up to the await of prisma.order.update.
UpdateStatusRead(w, id, newStatus, u) ==
  /\ pc[w] = "idle"
  /\ id \in DOMAIN orders
  /\ LET order == orders[id]
     IN IF /\ VerifyOrderAccess(order, u)
           /\ ValidateStatusTransition(order.status, newStatus)
           /\ IsRestaurantStaff(u)
          THEN /\ pc' = [pc EXCEPT ![w] = "status_write"]
               /\ loc' = [loc EXCEPT ![w] =
                    [op |-> "updateStatus", id |-> id, user |-> u,
                     status |-> newStatus, order |-> order]]
               /\ UNCHANGED last
          ELSE /\ last' = Response("updateStatus", FALSE, id, u, order.status,
                                   newStatus, order, order)
               /\ UNCHANGED <<pc, loc>>
  /\ UNCHANGED <<hrState, shifts, orders, now, tz, payState>>

\* updateStatus: prisma.order.update writes the status it was asked for.
UpdateStatusWrite(w) ==
  /\ pc[w] = "status_write"
  /\ LET l == loc[w]
         row == [orders[l.id] EXCEPT !.status = l.status]
     IN /\ orders' = [orders EXCEPT ![l.id] = row]
        /\ last' = Response("updateStatus", TRUE, l.id, l.user, l.order.status,
                            l.status, l.order, row)
  /\ pc' = [pc EXCEPT ![w] = "idle"]
  /\ loc' = [loc EXCEPT ![w] = NoLoc]
  /\ UNCHANGED <<hrState, shifts, now, tz, payState>>

\* The status checks of cancel: TRUE when neither throws.
CancelAllowedUnlessCancelled(status) == status # CANCELLED
CancelAllowed(status) == status # COMPLETED /\ status # CANCELLED

\* cancel, up to the await of prisma.order.update.
CancelRead(w, id, cancelDto, u) ==
  /\ pc[w] = "idle"
  /\ id \in DOMAIN orders
  /\ LET order == orders[id]
     IN IF VerifyOrderAccess(order, u) /\ CancelAllowed(order.status)
          THEN /\ pc' = [pc EXCEPT ![w] = "cancel_write"]
               /\ loc' = [loc EXCEPT ![w] =
                    [op |-> "cancel", id |-> id, user |-> u,
                     cancelDto |-> cancelDto, order |-> order]]
               /\ UNCHANGED last
          ELSE /\ last' = Response("cancel", FALSE, id, u, order.status,
                                   CANCELLED, order, order)
               /\ UNCHANGED <<pc, loc>>
  /\ UNCHANGED <<hrState, shifts, orders, now, tz, payState>>

\* cancel: prisma.order.update writes CANCELLED and the instructions the
\* request read, with the reason appended.
CancelWrite(w) ==
  /\ pc[w] = "cancel_write"
  /\ LET l == loc[w]
         row == [orders[l.id] EXCEPT
                   !.status = CANCELLED,
                   !.specialInstructions =
                      l.order.specialInstructions \o <<l.cancelDto.reason>>]
     IN /\ orders' = [orders EXCEPT ![l.id] = row]
        /\ last' = Response("cancel", TRUE, l.id, l.user, l.order.status,
                            CANCELLED, l.order, row)
  /\ pc' = [pc EXCEPT ![w] = "idle"]
  /\ loc' = [loc EXCEPT ![w] = NoLoc]
  /\ UNCHANGED <<hrState, shifts, now, tz, payState>>

\* ------------------------------------------------- order lifecycle, inputs
OrderIds == 1..MaxLiveOrders
PlainItem == [productId |-> "p2", variant |-> None, quantity |-> 1, unitPrice |-> 7]
LifecycleDto(si) ==
  [restaurantId |-> "r1", tableId |-> None, items |-> <<PlainItem>>,
   specialInstructions |-> si]
\* A customer's order with a note, and one a restaurant owner keys in.
LifecycleRequests ==
  {<<LifecycleDto(<<"no onions">>), "cust1">>, <<LifecycleDto(<< >>), "owner1">>}
CancelDtos == {[reason |-> "changed mind", refund |-> rf] : rf \in BOOLEAN}

Init ==
  /\ orders = << >>
  /\ now = TicksPerDay
  /\ tz = 0
  /\ pc = [w \in Workers |-> "idle"]
  /\ loc = [w \in Workers |-> NoLoc]
  /\ last = NoCall
  /\ payments = << >>
  /\ extIssued = 0
  /\ delivered = {}
  /\ shifts = << >>
  /\ users = SeedUsers
  /\ employees = SeedEmployees
  /\ invites = << >>

\* Requests that never overlap: one starts only when none is in flight.
SeqCreate(w, dto, u) == AllIdle /\ CreateRead(w, dto, u, MaxLiveOrders)
SeqUpdateStatus(w, id, newStatus, u) == AllIdle /\ UpdateStatusRead(w, id, newStatus, u)
SeqCancel(w, id, cancelDto, u) == AllIdle /\ CancelRead(w, id, cancelDto, u)

OrderSeqNext ==
  \/ \E rq \in LifecycleRequests : SeqCreate("w1", rq[1], rq[2])
  \/ CreateInsert("w1")
  \/ \E id \in OrderIds, st \in OrderStatus, u \in Users : SeqUpdateStatus("w1", id, st, u)
  \/ UpdateStatusWrite("w1")
  \/ \E id \in OrderIds, dto \in CancelDtos, u \in Users : SeqCancel("w1", id, dto, u)
  \/ CancelWrite("w1")

\* The order lifecycle under non-overlapping requests.
OrderSeqSpec == Init /\ [][OrderSeqNext]_vars

RacingUsers == {"owner1", "cust1"}
RacingCancelDtos == {[reason |-> rs, refund |-> FALSE] : rs \in {"changed mind", "sold out"}}

OrderNext ==
  \/ \E w \in Workers, rq \in LifecycleRequests :
       CreateRead(w, rq[1], rq[2], MaxLiveOrders)
  \/ \E w \in Workers : CreateInsert(w)
  \/ \E w \in Workers, id \in OrderIds, st \in OrderStatus, u \in RacingUsers :
       UpdateStatusRead(w, id, st, u)
  \/ \E w \in Workers : UpdateStatusWrite(w)
  \/ \E w \in Workers, id \in OrderIds, dto \in RacingCancelDtos, u \in RacingUsers :
       CancelRead(w, id, dto, u)
  \/ \E w \in Workers : CancelWrite(w)

\* The order lifecycle with requests interleaving at their awaits.
OrderSpec == Init /\ [][OrderNext]_vars

\* ------------------------------------------------------- order numbering
\* The wall clock moves on.
ClockAdvance ==
  /\ now < MaxTime
  /\ now' = now + 1
  /\ UNCHANGED <<hrState, shifts, orders, tz, pc, loc, last, payState>>

\* The wall clock moves on between requests.
Tick == AllIdle /\ ClockAdvance

\* Offsets of the server's time zone from UTC the process may run under.
TzOffsets == {-1, 0, 1}
NumberingDtos ==
  {[restaurantId |-> "r1", tableId |-> None, items |-> <<PlainItem>>,
    specialInstructions |-> << >>],
   [restaurantId |-> "r2", tableId |-> None,
    items |-> <<[productId |-> "p3", variant |-> None, quantity |-> 1, unitPrice |-> 4]>>,
    specialInstructions |-> << >>]}

NumberInit ==
  /\ orders = << >>
  /\ now = TicksPerDay
  /\ tz \in TzOffsets
  /\ pc = [w \in Workers |-> "idle"]
  /\ loc = [w \in Workers |-> NoLoc]
  /\ last = NoCall
  /\ payments = << >>
  /\ extIssued = 0
  /\ delivered = {}
  /\ shifts = << >>
  /\ users = SeedUsers
  /\ employees = SeedEmployees
  /\ invites = << >>

SeqNumberedCreate(w, dto, u) == AllIdle /\ CreateRead(w, dto, u, MaxOrders)

NumberSeqNext ==
  \/ \E dto \in NumberingDtos : SeqNumberedCreate("w1", dto, "cust1")
  \/ CreateInsert("w1")
  \/ Tick

\* Order creation, one request after the other, over several days.
NumberSeqSpec == NumberInit /\ [][NumberSeqNext]_vars

NumberNext ==
  \/ \E w \in Workers, dto \in NumberingDtos : CreateRead(w, dto, "cust1", MaxOrders)
  \/ \E w \in Workers : CreateInsert(w)
  \/ Tick

\* Order creation with requests interleaving at their awaits.
NumberSpec == Init /\ [][NumberNext]_vars

\* ------------------------------------------------------------ order pricing
VariantNames == {None, "large", "small", "jumbo"}
ClientUnitPrices == {0, 10}
ItemInputs ==
  {[productId |-> p, variant |-> v, quantity |-> q, unitPrice |-> c] :
     p \in Products, v \in VariantNames, q \in {1, 2}, c \in ClientUnitPrices}
PricingDto(r, t, items) ==
  [restaurantId |-> r, tableId |-> t, items |-> items, specialInstructions |-> << >>]

\* The first order placed into an empty store.
FirstCreate ==
  /\ orders = << >>
  /\ AllIdle
  /\ \E r \in Restaurants, t \in {None} \cup Tables, n \in 1..MaxItems :
       \E items \in [1..n -> ItemInputs] :
         CreateRead("w1", PricingDto(r, t, items), "cust1", MaxOrders)

PricingNext ==
  \/ FirstCreate
  \/ CreateInsert("w1")

\* Pricing of one order over every request of the bounded request set.
PricingSpec == Init /\ [][PricingNext]_vars

\* ----------------------------------------------------------- PaymentsService
FAILED == "FAILED"
REFUNDED == "REFUNDED"
PaymentStatus == {PENDING, COMPLETED, FAILED, REFUNDED}

STRIPE == "STRIPE"
YOOKASSA == "YOOKASSA"
CASH == "CASH"
CARD_TERMINAL == "CARD_TERMINAL"
PaymentMethod == {STRIPE, YOOKASSA, CASH, CARD_TERMINAL}

\* commissionRate of PaymentsService, in percent: 0.05.
CommissionRatePct == 5
\* commissionRate of a foodcourt row, in percent: 0.10 for the seeded foodcourt.
FoodcourtCommissionPct(f) == IF f = "f1" THEN 10 ELSE 5
\* The rate of the foodcourt a restaurant stands in.
RestaurantCommissionPct(r) == FoodcourtCommissionPct(RestaurantRow(r).foodcourtId)

\* Math.round(num / den) for num >= 0: the nearest integer, a half going up.
\* (amount * 0.05 in doubles is never below an exact half that amount / 20
\* reaches, so the rational value decides.)
MathRound(num, den) == (2 * num + den) \div (2 * den)

\* commissionAmount of create, processCashPayment and processCardTerminalPayment.
CommissionAmount(amount) == MathRound(amount * CommissionRatePct, 100)

\* The payments that reference an order.
PaymentsOf(orderId) == {i \in DOMAIN payments : payments[i].orderId = orderId}

\* order.payment of the include: whether the order has a payment.
HasPayment(orderId) == PaymentsOf(orderId) # {}

\* The unique constraint on Payment.orderId the one-to-one relation
\* order.payment stands on: whether an insert for the order gets through.
OrderIdUniqueUnchecked(orderId) == TRUE
OrderIdUnique(orderId) == PaymentsOf(orderId) = {}

\* The row prisma.payment.create inserts.
PaymentRow(orderId, amount, method, status, externalPaymentId) ==
  [orderId |-> orderId, amount |-> amount, method |-> method, status |-> status,
   commissionAmount |-> CommissionAmount(amount),
   netAmount |-> amount - CommissionAmount(amount),
   externalPaymentId |-> externalPaymentId, refund |-> 0]

Done(w) ==
  /\ pc' = [pc EXCEPT ![w] = "idle"]
  /\ loc' = [loc EXCEPT ![w] = NoLoc]

\* create, up to the await of prisma.payment.create.
PaymentCreateRead(w, dto, u) ==
  /\ pc[w] = "idle"
  /\ LET refused(why) ==
           /\ last' = Response("createPayment", FALSE, dto.orderId, u, None, why, NoRow, NoRow)
           /\ UNCHANGED <<pc, loc>>
     IN IF dto.orderId \notin DOMAIN orders THEN refused("notfound")
        ELSE IF HasPayment(dto.orderId) THEN refused("exists")
        ELSE IF RoleOf(u) = CUSTOMER /\ orders[dto.orderId].customerId # u
          THEN refused("forbidden")
        ELSE /\ pc' = [pc EXCEPT ![w] = "pay_insert"]
             /\ loc' = [loc EXCEPT ![w] =
                  [op |-> "createPayment", user |-> u,
                   row |-> PaymentRow(dto.orderId, dto.amount, dto.method, PENDING, 0)]]
             /\ UNCHANGED last
  /\ UNCHANGED <<hrState, shifts, orders, now, tz, payState>>

\* create: prisma.payment.create, then the switch on the method.
PaymentCreateInsert(w) ==
  /\ pc[w] = "pay_insert"
  /\ LET l == loc[w]
     IN IF ~OrderIdUnique(l.row.orderId)
          THEN /\ last' = Response("createPayment", FALSE, l.row.orderId, l.user, None,
                                   "unique", NoRow, NoRow)
               /\ Done(w)
               /\ UNCHANGED payments
          ELSE /\ payments' = Append(payments, l.row)
               /\ IF l.row.method \in {STRIPE, YOOKASSA}
                    THEN /\ pc' = [pc EXCEPT ![w] = "pay_provider"]
                         /\ loc' = [loc EXCEPT ![w] =
                              [op |-> "createPayment", user |-> l.user, row |-> l.row,
                               id |-> Len(payments) + 1]]
                         /\ UNCHANGED last
                    ELSE /\ last' = Response("createPayment", TRUE, l.row.orderId, l.user,
                                             None, l.row.method, NoRow, l.row)
                         /\ Done(w)
  /\ UNCHANGED <<hrState, shifts, orders, now, tz, extIssued, delivered>>

\* processStripePayment / processYookassaPayment: the provider call, which
\* returns a fresh payment id or throws (also when the provider is not configured).
PaymentProviderCall(w, answered) ==
  /\ pc[w] = "pay_provider"
  /\ LET l == loc[w]
     IN IF answered
          THEN /\ extIssued' = extIssued + 1
               /\ pc' = [pc EXCEPT ![w] = "pay_update"]
               /\ loc' = [loc EXCEPT ![w] =
                    [op |-> "createPayment", user |-> l.user, row |-> l.row,
                     id |-> l.id, ext |-> extIssued + 1]]
               /\ UNCHANGED last
          ELSE /\ last' = Response("createPayment", FALSE, l.row.orderId, l.user, None,
                                   "provider", NoRow, payments[l.id])
               /\ Done(w)
               /\ UNCHANGED extIssued
  /\ UNCHANGED <<hrState, shifts, orders, now, tz, payments, delivered>>

\* processStripePayment / processYookassaPayment: prisma.payment.update stores
\* the provider's id next to the metadata of the inserted row.
PaymentProviderUpdate(w) ==
  /\ pc[w] = "pay_update"
  /\ LET l == loc[w]
         row == [payments[l.id] EXCEPT !.externalPaymentId = l.ext,
                                       !.refund = l.row.refund]
     IN /\ payments' = [payments EXCEPT ![l.id] = row]
        /\ last' = Response("createPayment", TRUE, l.row.orderId, l.user, None,
                            l.row.method, NoRow, row)
  /\ Done(w)
  /\ UNCHANGED <<hrState, shifts, orders, now, tz, extIssued, delivered>>

\* terminalTransactionId of the request: an id of the terminal, not of a provider.
TerminalTransactionId == -1

\* processCashPayment / processCardTerminalPayment, up to prisma.payment.create.
StaffPaymentRead(w, op, method, externalPaymentId, orderId, u) ==
  /\ pc[w] = "idle"
  /\ LET refused(why) ==
           /\ last' = Response(op, FALSE, orderId, u, None, why, NoRow, NoRow)
           /\ UNCHANGED <<pc, loc>>
     IN IF ~IsRestaurantStaff(u) THEN refused("forbidden")
        ELSE IF orderId \notin DOMAIN orders THEN refused("notfound")
        ELSE IF HasPayment(orderId) THEN refused("exists")
        ELSE /\ pc' = [pc EXCEPT ![w] = "staff_insert"]
             /\ loc' = [loc EXCEPT ![w] =
                  [op |-> op, user |-> u,
                   row |-> PaymentRow(orderId, orders[orderId].totalAmount, method,
                                      COMPLETED, externalPaymentId)]]
             /\ UNCHANGED last
  /\ UNCHANGED <<hrState, shifts, orders, now, tz, payState>>

ProcessCashPayment(w, orderId, u) ==
  StaffPaymentRead(w, "processCashPayment", CASH, 0, orderId, u)

ProcessCardTerminalPayment(w, orderId, u) ==
  StaffPaymentRead(w, "processCardTerminalPayment", CARD_TERMINAL,
                   TerminalTransactionId, orderId, u)

\* processCashPayment / processCardTerminalPayment: prisma.payment.create.
StaffPaymentInsert(w) ==
  /\ pc[w] = "staff_insert"
  /\ LET l == loc[w]
     IN IF ~OrderIdUnique(l.row.orderId)
          THEN /\ last' = Response(l.op, FALSE, l.row.orderId, l.user, None, "unique",
                                   NoRow, NoRow)
               /\ UNCHANGED payments
          ELSE /\ payments' = Append(payments, l.row)
               /\ last' = Response(l.op, TRUE, l.row.orderId, l.user, None, l.row.method,
                                   NoRow, l.row)
  /\ Done(w)
  /\ UNCHANGED <<hrState, shifts, orders, now, tz, extIssued, delivered>>

\* The payments findFirst may return for a provider's payment id.
PaymentsByExternalId(ext) == {i \in DOMAIN payments : payments[i].externalPaymentId = ext}

\* The status a webhook event asks for: handleStripeWebhook / handleYookassaWebhook
\* switch on the event type, and log any other type.
WebhookStatus(kind) ==
  CASE kind = "succeeded" -> COMPLETED
    [] kind = "failed" -> FAILED
    [] OTHER -> None

\* handleWebhook, up to the await of prisma.payment.update. signatureValid says
\* whether the signature the request carries verifies; nothing reads it.
HandleWebhookRead(w, provider, kind, ext, signatureValid) ==
  /\ pc[w] = "idle"
  /\ IF WebhookStatus(kind) = None \/ PaymentsByExternalId(ext) = {}
       THEN /\ last' = Response("handleWebhook", TRUE, 0, provider, None, kind, NoRow, NoRow)
            /\ UNCHANGED <<pc, loc>>
       ELSE LET id == CHOOSE i \in PaymentsByExternalId(ext) :
                        \A j \in PaymentsByExternalId(ext) : i <= j
            IN /\ pc' = [pc EXCEPT ![w] = "hook_write"]
               /\ loc' = [loc EXCEPT ![w] =
                    [op |-> "handleWebhook", user |-> provider, id |-> id,
                     status |-> WebhookStatus(kind), payment |-> payments[id],
                     signatureValid |-> signatureValid]]
               /\ UNCHANGED last
  /\ UNCHANGED <<hrState, shifts, orders, now, tz, payState>>

\* The row handle*PaymentSuccess / handle*PaymentFailed write: the status of the
\* event, and the metadata the handler read with the event's keys added.
WebhookRow(current, read, status) ==
  [current EXCEPT !.status = status, !.refund = read.refund]

\* The event a suspended webhook request is handling.
WebhookEvent(l) == <<l.user, l.status, l.payment.externalPaymentId>>

\* handleWebhook: prisma.payment.update. The service keeps no record of the
\* events it handled; what becomes of delivered is for the caller to say.
HandleWebhookWrite(w) ==
  /\ pc[w] = "hook_write"
  /\ LET l == loc[w]
         row == WebhookRow(payments[l.id], l.payment, l.status)
     IN /\ payments' = [payments EXCEPT ![l.id] = row]
        /\ last' = Response("handleWebhook", TRUE, l.id, l.user, payments[l.id].status,
                            l.status, payments[l.id], row)
  /\ Done(w)
  /\ UNCHANGED <<hrState, shifts, orders, now, tz, extIssued>>

\* refund, up to the await of the provider call or of prisma.payment.update.
RefundRead(w, id, refundDto, u) ==
  /\ pc[w] = "idle"
  /\ LET refused(why, row) ==
           /\ last' = Response("refund", FALSE, id, u, row.status, why, row, row)
           /\ UNCHANGED <<pc, loc>>
     IN IF id \notin DOMAIN payments THEN refused("notfound", NoRow)
        ELSE LET payment == payments[id]
                 order == orders[payment.orderId]
             IN IF payment.status # COMPLETED THEN refused("status", payment)
                ELSE IF /\ RoleOf(u) = RESTAURANT_OWNER
                        /\ RestaurantRow(order.restaurantId).ownerId # u
                  THEN refused("forbidden", payment)
                ELSE /\ pc' = [pc EXCEPT ![w] =
                          IF /\ payment.method \in {STRIPE, YOOKASSA}
                             /\ payment.externalPaymentId # 0
                            THEN "refund_call" ELSE "refund_write"]
                     /\ loc' = [loc EXCEPT ![w] =
                          [op |-> "refund", user |-> u, id |-> id, payment |-> payment,
                           refundAmount |-> IF refundDto.amount # 0 THEN refundDto.amount
                                            ELSE payment.amount]]
                     /\ UNCHANGED last
  /\ UNCHANGED <<hrState, shifts, orders, now, tz, payState>>

\* refund: stripe.refunds.create / the YooKassa refund request, which may throw.
RefundCall(w, answered) ==
  /\ pc[w] = "refund_call"
  /\ IF answered
       THEN /\ pc' = [pc EXCEPT ![w] = "refund_write"]
            /\ UNCHANGED <<loc, last>>
       ELSE /\ last' = Response("refund", FALSE, loc[w].id, loc[w].user,
                                loc[w].payment.status, "provider", loc[w].payment,
                                payments[loc[w].id])
            /\ Done(w)
  /\ UNCHANGED <<hrState, shifts, orders, now, tz, payState>>

\* The row refund writes: REFUNDED, and the metadata it read with the refund added.
RefundedRowReversed(current, refundAmount) ==
  [current EXCEPT !.status = REFUNDED, !.refund = refundAmount,
                  !.commissionAmount = 0, !.netAmount = 0]
RefundedRow(current, refundAmount) ==
  [current EXCEPT !.status = REFUNDED, !.refund = refundAmount]

\* refund: prisma.payment.update.
RefundWrite(w) ==
  /\ pc[w] = "refund_write"
  /\ LET l == loc[w]
         row == RefundedRow(payments[l.id], l.refundAmount)
     IN /\ payments' = [payments EXCEPT ![l.id] = row]
        /\ last' = Response("refund", TRUE, l.id, l.user, l.payment.status, REFUNDED,
                            l.payment, row)
  /\ Done(w)
  /\ UNCHANGED <<hrState, shifts, orders, now, tz, extIssued, delivered>>

\* ---------------------------------------------------------- EmployeesService
SCHEDULED == "SCHEDULED"
ACTIVE == "ACTIVE"
ShiftStatus == {SCHEDULED, ACTIVE, COMPLETED, CANCELLED}

\* Employee rows: e1 is the employee record of user emp1 at r1.
Employees == {"e1"}
EmployeeRow(e) == [userId |-> "emp1", restaurantId |-> EmployeeRestaurant("emp1")]

\* findOne of EmployeesService: what the caller gets for an employee id.
EmployeeFindOne(id, u) ==
  IF id \notin Employees THEN "notfound"
  ELSE IF /\ RoleOf(u) = RESTAURANT_OWNER
          /\ RestaurantRow(EmployeeRow(id).restaurantId).ownerId # u THEN "forbidden"
  ELSE IF RoleOf(u) = EMPLOYEE /\ EmployeeRow(id).userId # u THEN "forbidden"
  ELSE "ok"

\* The shifts of an employee in one of the given statuses.
ShiftsOf(employeeId, statuses) ==
  {i \in DOMAIN shifts : shifts[i].employeeId = employeeId /\ shifts[i].status \in statuses}

\* endOfDay of clockIn: the last instant of the local day of t.
EndOfDay(t) == (LocalDay(t) + 1) * TicksPerDay - tz - 1

\* The WHERE clause of createShift's overlap query, for a shift row.
OverlapsQuery(row, startTime, endTime) ==
  \/ row.startTime <= startTime /\ row.endTime > startTime
  \/ row.startTime < endTime /\ row.endTime >= endTime
  \/ row.startTime >= startTime /\ row.endTime <= endTime

\* createShift, up to the await of the overlap query.
CreateShiftFindOne(w, createShiftDto, u) ==
  /\ pc[w] = "idle"
  /\ Len(shifts) < MaxShifts
  /\ LET access == EmployeeFindOne(createShiftDto.employeeId, u)
         refused(why) ==
           /\ last' = Response("createShift", FALSE, 0, u, None, why, NoRow, NoRow)
           /\ UNCHANGED <<pc, loc>>
     IN IF access # "ok" THEN refused(access)
        ELSE IF createShiftDto.startTime >= createShiftDto.endTime THEN refused("times")
        ELSE /\ pc' = [pc EXCEPT ![w] = "shift_overlap"]
             /\ loc' = [loc EXCEPT ![w] =
                  [op |-> "createShift", user |-> u, dto |-> createShiftDto]]
             /\ UNCHANGED last
  /\ UNCHANGED <<hrState, shifts, orders, now, tz, payState>>

\* createShift: the overlap query has answered.
CreateShiftOverlap(w) ==
  /\ pc[w] = "shift_overlap"
  /\ LET l == loc[w]
     IN IF \E i \in ShiftsOf(l.dto.employeeId, {SCHEDULED, ACTIVE}) :
             OverlapsQuery(shifts[i], l.dto.startTime, l.dto.endTime)
          THEN /\ last' = Response("createShift", FALSE, 0, l.user, None, "overlap",
                                   NoRow, NoRow)
               /\ Done(w)
          ELSE /\ pc' = [pc EXCEPT ![w] = "shift_insert"]
               /\ UNCHANGED <<loc, last>>
  /\ UNCHANGED <<hrState, shifts, orders, now, tz, payState>>

\* createShift: prisma.shift.create.
CreateShiftInsert(w) ==
  /\ pc[w] = "shift_insert"
  /\ LET l == loc[w]
         row == [employeeId |-> l.dto.employeeId, status |-> SCHEDULED,
                 startTime |-> l.dto.startTime, endTime |-> l.dto.endTime,
                 actualStartTime |-> 0, actualEndTime |-> 0]
     IN /\ shifts' = Append(shifts, row)
        /\ last' = Response("createShift", TRUE, Len(shifts) + 1, l.user, None, SCHEDULED,
                            NoRow, row)
  /\ Done(w)
  /\ UNCHANGED <<hrState, orders, now, tz, payState>>

\* clockIn, up to the await of the query for an active shift.
ClockInFindOne(w, clockInDto, u) ==
  /\ pc[w] = "idle"
  /\ Len(shifts) < MaxShifts
  /\ LET access == EmployeeFindOne(clockInDto.employeeId, u)
     IN IF access # "ok"
          THEN /\ last' = Response("clockIn", FALSE, 0, u, None, access, NoRow, NoRow)
               /\ UNCHANGED <<pc, loc>>
          ELSE /\ pc' = [pc EXCEPT ![w] = "clockin_active"]
               /\ loc' = [loc EXCEPT ![w] =
                    [op |-> "clockIn", user |-> u, employeeId |-> clockInDto.employeeId]]
               /\ UNCHANGED last
  /\ UNCHANGED <<hrState, shifts, orders, now, tz, payState>>

\* clockIn: the query for an active shift has answered; now is read.
ClockInActive(w) ==
  /\ pc[w] = "clockin_active"
  /\ LET l == loc[w]
     IN IF ShiftsOf(l.employeeId, {ACTIVE}) # {}
          THEN /\ last' = Response("clockIn", FALSE, 0, l.user, None, "active", NoRow, NoRow)
               /\ Done(w)
          ELSE /\ pc' = [pc EXCEPT ![w] = "clockin_scheduled"]
               /\ loc' = [loc EXCEPT ![w] =
                    [op |-> "clockIn", user |-> l.user, employeeId |-> l.employeeId,
                     now |-> now]]
               /\ UNCHANGED last
  /\ UNCHANGED <<hrState, shifts, orders, now, tz, payState>>

\* The shifts findFirst may return: scheduled to start on the local day of t.
ScheduledToday(employeeId, t) ==
  {i \in ShiftsOf(employeeId, {SCHEDULED}) : LocalDay(shifts[i].startTime) = LocalDay(t)}

\* clockIn: the query for a shift scheduled today has answered with one of the
\* scheduled shifts (shift 0: none).
ClockInScheduled(w) ==
  /\ pc[w] = "clockin_scheduled"
  /\ LET l == loc[w]
         found == ScheduledToday(l.employeeId, l.now)
     IN \E shift \in (IF found = {} THEN {0} ELSE found) :
          loc' = [loc EXCEPT ![w] =
                    [op |-> "clockIn", user |-> l.user, employeeId |-> l.employeeId,
                     now |-> l.now, shift |-> shift]]
  /\ pc' = [pc EXCEPT ![w] = "clockin_write"]
  /\ UNCHANGED <<hrState, shifts, orders, now, tz, last, payState>>

\* clockIn: prisma.shift.update of the scheduled shift, or prisma.shift.create.
ClockInWrite(w) ==
  /\ pc[w] = "clockin_write"
  /\ LET l == loc[w]
         id == IF l.shift # 0 THEN l.shift ELSE Len(shifts) + 1
         row == IF l.shift # 0
                  THEN [shifts[l.shift] EXCEPT !.status = ACTIVE, !.actualStartTime = l.now]
                  ELSE [employeeId |-> l.employeeId, status |-> ACTIVE,
                        startTime |-> l.now, endTime |-> EndOfDay(l.now),
                        actualStartTime |-> l.now, actualEndTime |-> 0]
     IN /\ shifts' = IF l.shift # 0 THEN [shifts EXCEPT ![id] = row]
                     ELSE Append(shifts, row)
        /\ last' = Response("clockIn", TRUE, id, l.user,
                            IF l.shift # 0 THEN shifts[l.shift].status ELSE None, ACTIVE,
                            IF l.shift # 0 THEN shifts[l.shift] ELSE NoRow, row)
  /\ Done(w)
  /\ UNCHANGED <<hrState, orders, now, tz, payState>>

\* clockOut, up to the await of prisma.shift.update.
ClockOutRead(w, clockOutDto, u) ==
  /\ pc[w] = "idle"
  /\ LET id == clockOutDto.shiftId
         refused(why, row) ==
           /\ last' = Response("clockOut", FALSE, id, u, row.status, why, row, row)
           /\ UNCHANGED <<pc, loc>>
     IN IF id \notin DOMAIN shifts THEN refused("notfound", NoRow)
        ELSE LET shift == shifts[id]
                 employee == EmployeeRow(shift.employeeId)
             IN IF RoleOf(u) = EMPLOYEE /\ employee.userId # u
                  THEN refused("forbidden", shift)
                ELSE IF /\ RoleOf(u) = RESTAURANT_OWNER
                        /\ RestaurantRow(employee.restaurantId).ownerId # u
                  THEN refused("forbidden", shift)
                ELSE IF shift.status # ACTIVE THEN refused("status", shift)
                ELSE /\ pc' = [pc EXCEPT ![w] = "clockout_write"]
                     /\ loc' = [loc EXCEPT ![w] =
                          [op |-> "clockOut", user |-> u, id |-> id, shift |-> shift,
                           now |-> now]]
                     /\ UNCHANGED last
  /\ UNCHANGED <<hrState, shifts, orders, now, tz, payState>>

\* clockOut: prisma.shift.update.
ClockOutWrite(w) ==
  /\ pc[w] = "clockout_write"
  /\ LET l == loc[w]
         row == [shifts[l.id] EXCEPT !.status = COMPLETED, !.actualEndTime = l.now]
     IN /\ shifts' = [shifts EXCEPT ![l.id] = row]
        /\ last' = Response("clockOut", TRUE, l.id, l.user, l.shift.status, COMPLETED,
                            l.shift, row)
  /\ Done(w)
  /\ UNCHANGED <<hrState, orders, now, tz, payState>>

\* ---------------------------------------------------------------- shift specs
ShiftIds == 1..MaxShifts
\* A shift today, one that follows it, a shift tomorrow, a night shift that
\* began yesterday, and one that ends when it starts.
ShiftIntervals ==
  {<<TicksPerDay, TicksPerDay + 1>>, <<TicksPerDay + 1, 2 * TicksPerDay>>,
   <<2 * TicksPerDay, 2 * TicksPerDay + 1>>, <<TicksPerDay - 1, TicksPerDay + 1>>,
   <<TicksPerDay, TicksPerDay>>}
CreateShiftDtos ==
  {[employeeId |-> "e1", startTime |-> iv[1], endTime |-> iv[2]] : iv \in ShiftIntervals}
ClockInDtos == {[employeeId |-> "e1"]}
ClockOutDtos == [shiftId : ShiftIds]
ShiftManagers == {"owner1", "owner2"}
ShiftUsers == {"emp1", "owner1"}

ShiftRequest(w, createShiftDtos) ==
  \/ \E dto \in createShiftDtos, u \in ShiftManagers : CreateShiftFindOne(w, dto, u)
  \/ \E dto \in ClockInDtos, u \in ShiftUsers : ClockInFindOne(w, dto, u)
  \/ \E dto \in ClockOutDtos, u \in ShiftUsers : ClockOutRead(w, dto, u)

ShiftStep(w) ==
  \/ CreateShiftOverlap(w)
  \/ CreateShiftInsert(w)
  \/ ClockInActive(w)
  \/ ClockInScheduled(w)
  \/ ClockInWrite(w)
  \/ ClockOutWrite(w)

\* Requests one after the other.
ShiftSeqNext ==
  \/ AllIdle /\ ShiftRequest("w1", CreateShiftDtos)
  \/ ShiftStep("w1")
  \/ Tick
ShiftSeqSpec == Init /\ [][ShiftSeqNext]_vars

\* Requests that overlap, about today's shift.
RacingShiftDtos == {dto \in CreateShiftDtos : dto.startTime = TicksPerDay}
ShiftNext ==
  \/ \E w \in Workers : ShiftRequest(w, RacingShiftDtos)
  \/ \E w \in Workers : ShiftStep(w)
  \/ ClockAdvance
ShiftSpec == Init /\ [][ShiftNext]_vars

\* ------------------------------------------------------------ payment specs
\* The order the payments are for: two large p1, 30 in total, placed by cust1.
PaymentOrderDto ==
  [restaurantId |-> "r1", tableId |-> None,
   items |-> <<[productId |-> "p1", quantity |-> 2, variant |-> "large", unitPrice |-> 0]>>,
   specialInstructions |-> << >>]

ClientAmounts == {30, 1099}
PaymentDtos ==
  [orderId : OrderIds, amount : ClientAmounts, method : {STRIPE}]
    \cup [orderId : OrderIds, amount : {30}, method : {YOOKASSA, CASH}]
PaymentUsers == {"cust1", "cust2"}
StaffPaymentUsers == {"emp1", "cust1"}
RefundUsers == {"owner1", "owner2"}
\* No amount (the whole payment) and a part of the payment.
RefundDtos == [amount : {0, 10}]
\* More than the payment.
OverRefundDtos == [amount : {40}]
WebhookProviders == {"stripe", "yookassa"}
WebhookKinds == {"succeeded", "failed", "other"}

\* A webhook endpoint is called, with a signature that verifies or does not.
WebhookRequest(w, signatureValid) ==
  \E provider \in WebhookProviders, kind \in WebhookKinds, ext \in 1..(extIssued + 1) :
    HandleWebhookRead(w, provider, kind, ext, signatureValid)

RefundRequest(w, refundDtos) ==
  \E id \in OrderIds, refundDto \in refundDtos, u \in RefundUsers :
    RefundRead(w, id, refundDto, u)

PaymentRequest(w) ==
  \/ CreateRead(w, PaymentOrderDto, "cust1", MaxLiveOrders)
  \/ \E dto \in PaymentDtos, u \in PaymentUsers : PaymentCreateRead(w, dto, u)
  \/ \E id \in OrderIds, u \in StaffPaymentUsers : ProcessCashPayment(w, id, u)
  \/ \E id \in OrderIds, u \in StaffPaymentUsers : ProcessCardTerminalPayment(w, id, u)
  \/ WebhookRequest(w, TRUE)
  \/ RefundRequest(w, RefundDtos)

\* The steps that finish a payment request, the webhook's write aside.
PaymentWriteStep(w) ==
  \/ CreateInsert(w)
  \/ PaymentCreateInsert(w)
  \/ \E answered \in BOOLEAN : PaymentProviderCall(w, answered)
  \/ PaymentProviderUpdate(w)
  \/ StaffPaymentInsert(w)
  \/ \E answered \in BOOLEAN : RefundCall(w, answered)
  \/ RefundWrite(w)

PaymentStep(w) ==
  \/ PaymentWriteStep(w)
  \/ HandleWebhookWrite(w) /\ UNCHANGED delivered

\* Requests one after the other.
SeqPaymentRequest == AllIdle /\ PaymentRequest("w1")
PaymentSeqNext ==
  \/ SeqPaymentRequest
  \/ PaymentStep("w1")
PaymentSeqSpec == Init /\ [][PaymentSeqNext]_vars

\* Requests one after the other, with refunds of any amount the DTO lets through.
SeqOverRefundRequest == AllIdle /\ RefundRequest("w1", OverRefundDtos)
RefundSeqNext ==
  \/ SeqPaymentRequest
  \/ SeqOverRefundRequest
  \/ PaymentStep("w1")
RefundSeqSpec == Init /\ [][RefundSeqNext]_vars

\* Requests one after the other, with webhook calls anyone can make: the
\* endpoints are public, and a caller without the provider's secret cannot sign.
SeqForgedWebhookRequest == AllIdle /\ WebhookRequest("w1", FALSE)
ForgedWebhookNext ==
  \/ SeqPaymentRequest
  \/ SeqForgedWebhookRequest
  \/ PaymentStep("w1")
ForgedWebhookSpec == Init /\ [][ForgedWebhookNext]_vars

\* Requests one after the other, with the events the providers have delivered
\* kept on record, so that a delivery can be told from a repeated delivery.
RecordedWebhookWrite(w) ==
  /\ HandleWebhookWrite(w)
  /\ delivered' = delivered \cup {WebhookEvent(loc[w])}
WebhookReplayNext ==
  \/ SeqPaymentRequest
  \/ PaymentWriteStep("w1")
  \/ RecordedWebhookWrite("w1")
WebhookReplaySpec == Init /\ [][WebhookReplayNext]_vars

\* Overlapping requests that create payments for one customer's orders.
CreationDtos == [orderId : OrderIds, amount : {30}, method : {STRIPE, CASH}]
CreationRequest(w) ==
  \/ CreateRead(w, PaymentOrderDto, "cust1", MaxLiveOrders)
  \/ \E dto \in CreationDtos : PaymentCreateRead(w, dto, "cust1")
  \/ \E id \in OrderIds : ProcessCashPayment(w, id, "emp1")
  \/ \E id \in OrderIds : ProcessCardTerminalPayment(w, id, "emp1")
CreationStep(w) ==
  \/ CreateInsert(w)
  \/ PaymentCreateInsert(w)
  \/ \E answered \in BOOLEAN : PaymentProviderCall(w, answered)
  \/ PaymentProviderUpdate(w)
  \/ StaffPaymentInsert(w)
PaymentCreationNext ==
  \/ \E w \in Workers : CreationRequest(w)
  \/ \E w \in Workers : CreationStep(w)
PaymentCreationSpec == Init /\ [][PaymentCreationNext]_vars

\* ------------------------------------------------------ lifecycle properties
\* The six transitions of the lifecycle table.
TransitionTable ==
  {<<PENDING, PREPARING>>, <<PENDING, CANCELLED>>, <<PREPARING, READY>>,
   <<PREPARING, CANCELLED>>, <<READY, COMPLETED>>, <<READY, CANCELLED>>}
TerminalOrderStatus == {COMPLETED, CANCELLED}

\* A superadmin, or the owner of the order's restaurant.
ManagesOrder(u, id) ==
  \/ RoleOf(u) = SUPERADMIN
  \/ /\ RoleOf(u) = RESTAURANT_OWNER
     /\ id \in DOMAIN orders
     /\ RestaurantRow(orders[id].restaurantId).ownerId = u

\* C1: updateStatus accepts a change from the status it finds to the status
\* asked for exactly when the pair is one of the six of the table (for a caller
\* who manages the order); an accepted call leaves the order in the status
\* asked for, and a refused call leaves the order as it was.
C1_TransitionTableExact ==
  last.op = "updateStatus" =>
    /\ last.ok => /\ <<last.from, last.to>> \in TransitionTable
                  /\ last.after.status = last.to
    /\ (<<last.from, last.to>> \in TransitionTable /\ ManagesOrder(last.user, last.id))
         => last.ok
    /\ ~last.ok => /\ last.after = last.before
                   /\ orders[last.id].status = last.from

C1_Witness ==
  /\ last.op = "updateStatus" /\ last.ok
  /\ last.from = READY /\ last.to = COMPLETED
  /\ orders[last.id].status = COMPLETED

\* C2: under non-overlapping calls, an order that is Completed or Cancelled is
\* never changed again (status and specialInstructions), and every updateStatus
\* or cancel call that finds it in such a status is refused, whoever calls.
C2_TerminalOrdersFrozen ==
  /\ [](/\ last.op \in {"updateStatus", "cancel"}
        /\ last.from \in TerminalOrderStatus
        => ~last.ok /\ last.after = last.before)
  /\ [][\A i \in DOMAIN orders :
          orders[i].status \in TerminalOrderStatus =>
            /\ orders'[i].status = orders[i].status
            /\ orders'[i].specialInstructions = orders[i].specialInstructions]_vars

C2_Witness ==
  /\ last.op = "cancel" /\ ~last.ok
  /\ last.from = COMPLETED
  /\ RoleOf(last.user) = SUPERADMIN
  /\ orders[last.id].status = COMPLETED

\* C3: with calls interleaving at their awaits, every change of an order's
\* status is still one of the six transitions of the table: no write changes
\* an order that is already Completed or Cancelled.
C3_RacingWritesFollowTable ==
  [][\A i \in DOMAIN orders :
       orders'[i].status # orders[i].status =>
         <<orders[i].status, orders'[i].status>> \in TransitionTable]_vars

\* ------------------------------------------------------ numbering properties
SameRestaurantAndDay(i, j) ==
  /\ orders[i].restaurantId = orders[j].restaurantId
  /\ UtcDay(orders[i].createdAt) = UtcDay(orders[j].createdAt)
  /\ LocalDay(orders[i].createdAt) = LocalDay(orders[j].createdAt)

\* C4: orders created for the same restaurant on the same date, by requests
\* that may interleave, carry pairwise distinct order numbers.
C4_ConcurrentNumbersDistinct ==
  \A i, j \in DOMAIN orders :
    (i # j /\ SameRestaurantAndDay(i, j)) => orders[i].orderNumber # orders[j].orderNumber

\* The orders up to i of the restaurant of i whose number has the date prefix of i.
SamePrefixUpTo(i) ==
  {j \in 1..i : /\ orders[j].restaurantId = orders[i].restaurantId
                /\ orders[j].orderNumber.date = orders[i].orderNumber.date}

\* C5: under non-overlapping creations, the k-th order of a restaurant whose
\* number carries a given date prefix has the sequence part k padded to three
\* digits: per restaurant and date the numbers are distinct, gapless and
\* ascending from 001.
C5_DailyNumbersGapless ==
  \A i \in DOMAIN orders :
    orders[i].orderNumber.seq = <<0, 0, Cardinality(SamePrefixUpTo(i))>>

\* -------------------------------------------------------- pricing properties
\* The catalog's price of a product in a variant: the base price plus the
\* modifier of the variant of that name, if the product has one.
CatalogUnitPrice(productId, variant) ==
  LET row == ProductRow(productId)
      named == {k \in DOMAIN row.variants : row.variants[k].name = variant}
  IN IF variant # None /\ named # {}
       THEN row.price + row.variants[CHOOSE k \in named : \A m \in named : k <= m].priceModifier
       ELSE row.price

RECURSIVE SumOver(_, _)
SumOver(items, n) ==
  IF n = 0 THEN 0 ELSE items[n].unitPrice * items[n].quantity + SumOver(items, n - 1)

\* C6: every stored order's total is the sum over its items of the stored unit
\* price times the quantity, and every stored unit price is the catalog's price
\* of the product in the chosen variant, whatever unitPrice the request carried.
C6_TotalFromCatalogPrices ==
  \A i \in DOMAIN orders :
    /\ orders[i].totalAmount = SumOver(orders[i].items, Len(orders[i].items))
    /\ \A k \in DOMAIN orders[i].items :
         /\ orders[i].items[k].unitPrice =
              CatalogUnitPrice(orders[i].items[k].productId, orders[i].items[k].variant)
         /\ orders[i].items[k].totalPrice =
              orders[i].items[k].unitPrice * orders[i].items[k].quantity

\* An order of two items, one in a priced variant, whose request carried unit
\* prices other than the ones stored.
C6_Witness ==
  /\ last.op = "create" /\ last.ok
  /\ Len(orders) = 1
  /\ Len(orders[1].items) = 2
  /\ orders[1].items[1].variant = "large"
  /\ orders[1].items[1].unitPrice = 15
  /\ orders[1].items[1].quantity = 2
  /\ orders[1].totalAmount = 37
  /\ \A k \in DOMAIN orders[1].items :
       last.before.request.items[k].unitPrice # orders[1].items[k].unitPrice

\* ------------------------------------------------ cancelling a paid order
\* One after the other: an order is placed, paid in cash at the counter, moved
\* along by the owner, refunded, and cancelled with or without refund: true.
CancelRefundNext ==
  \/ AllIdle /\ CreateRead("w1", PaymentOrderDto, "cust1", MaxLiveOrders)
  \/ CreateInsert("w1")
  \/ AllIdle /\ \E id \in OrderIds : ProcessCashPayment("w1", id, "emp1")
  \/ StaffPaymentInsert("w1")
  \/ \E id \in OrderIds, st \in OrderStatus : SeqUpdateStatus("w1", id, st, "owner1")
  \/ UpdateStatusWrite("w1")
  \/ \E id \in OrderIds, dto \in CancelDtos, u \in {"owner1", "cust1"} :
       SeqCancel("w1", id, dto, u)
  \/ CancelWrite("w1")
  \/ AllIdle /\ RefundRequest("w1", RefundDtos)
  \/ RefundWrite("w1")
CancelRefundSpec == Init /\ [][CancelRefundNext]_vars

\* ------------------------------------------------- who may act on an order
\* One after the other: customers place orders with r1 and r2, and the
\* employee of r1, the owner of r1 and the customers read, move and cancel them.
AccessUsers == {"emp1", "owner1", "cust1", "cust2"}
AccessNext ==
  \/ \E dto \in NumberingDtos : SeqCreate("w1", dto, "cust1")
  \/ CreateInsert("w1")
  \/ AllIdle /\ \E id \in OrderIds, u \in AccessUsers : FindOne("w1", id, u)
  \/ \E id \in OrderIds, st \in OrderStatus, u \in AccessUsers :
       SeqUpdateStatus("w1", id, st, u)
  \/ UpdateStatusWrite("w1")
  \/ \E id \in OrderIds, dto \in RacingCancelDtos, u \in AccessUsers :
       SeqCancel("w1", id, dto, u)
  \/ CancelWrite("w1")
AccessSpec == Init /\ [][AccessNext]_vars

\* -------------------------------------------------------- payment properties
CreatingOps == {"createPayment", "processCashPayment", "processCardTerminalPayment"}

\* C7: whatever the order and overlap of create, processCashPayment and
\* processCardTerminalPayment calls, at most one payment references an order;
\* once an order has a payment no step adds another, and no call that starts
\* when the order has a payment gets past its check: it fails.
C7_AtMostOnePaymentPerOrder ==
  /\ [](\A o \in DOMAIN orders : Cardinality(PaymentsOf(o)) <= 1)
  /\ [](last.op \in CreatingOps /\ last.to \in {"exists", "unique"} => ~last.ok)
  /\ [][/\ \A o \in DOMAIN orders : HasPayment(o) => PaymentsOf(o)' = PaymentsOf(o)
        /\ \A w \in Workers :
             (pc[w] = "idle" /\ pc'[w] \in {"pay_insert", "staff_insert"})
               => ~HasPayment(loc'[w].row.orderId)]_vars

\* Two overlapping calls both passed the check; the second insert was refused
\* and the order still has the one payment of the first.
C7_Witness ==
  /\ last.op \in CreatingOps
  /\ ~last.ok
  /\ last.to = "unique"
  /\ Cardinality(PaymentsOf(last.id)) = 1

\* C8: the commission stored with every payment is the floor of the amount
\* times the commission rate of the order's restaurant, and the net is the
\* amount less the commission.
C8_CommissionIsFloorOfRestaurantRate ==
  \A i \in DOMAIN payments :
    LET p == payments[i]
        rate == RestaurantCommissionPct(orders[p.orderId].restaurantId)
    IN /\ p.commissionAmount = (p.amount * rate) \div 100
       /\ p.netAmount = p.amount - p.commissionAmount

\* C9: a Completed or Refunded payment has commission + net = amount, and no
\* step changes the commission or the net of a Completed or Refunded payment.
C9_CommissionAndNetSettled ==
  /\ [](\A i \in DOMAIN payments :
          payments[i].status \in {COMPLETED, REFUNDED}
            => payments[i].commissionAmount + payments[i].netAmount = payments[i].amount)
  /\ [][\A i \in DOMAIN payments :
          payments[i].status \in {COMPLETED, REFUNDED}
            => /\ payments'[i].commissionAmount = payments[i].commissionAmount
               /\ payments'[i].netAmount = payments[i].netAmount]_vars

\* A refund has rewritten a Completed payment that carries a commission.
C9_Witness ==
  /\ last.op = "refund"
  /\ last.ok
  /\ last.before.status = COMPLETED
  /\ last.after.status = REFUNDED
  /\ last.before.commissionAmount > 0
  /\ last.after.commissionAmount + last.after.netAmount = last.after.amount

AllowedPaymentTransitions ==
  {<<PENDING, COMPLETED>>, <<PENDING, FAILED>>, <<COMPLETED, REFUNDED>>}

\* C10: the status of a payment changes only from Pending to Completed, from
\* Pending to Failed and from Completed to Refunded; a webhook for a payment
\* that is Completed, Failed or Refunded leaves its status as it is.
C10_PaymentStatusTransitions ==
  [][\A i \in DOMAIN payments :
       payments'[i].status # payments[i].status
         => <<payments[i].status, payments'[i].status>> \in AllowedPaymentTransitions]_vars

\* C11: a webhook event that is delivered again changes no payment's status,
\* whatever happened to the payment since its first delivery, so that N
\* deliveries end in the status one delivery ends in.
C11_RepeatedDeliveryIsNoOp ==
  [][\A w \in Workers :
       (pc[w] = "hook_write" /\ pc'[w] = "idle" /\ WebhookEvent(loc[w]) \in delivered)
         => \A i \in DOMAIN payments : payments'[i].status = payments[i].status]_vars

\* C12: a webhook request whose signature does not verify changes no payment.
C12_BadSignatureChangesNothing ==
  [][\A w \in Workers :
       (pc[w] = "hook_write" /\ pc'[w] = "idle" /\ ~loc[w].signatureValid)
         => payments' = payments]_vars

\* C13: when the provider call of create fails, no payment row of the order
\* remains.
C13_ProviderFailureRollsBack ==
  (last.op = "createPayment" /\ last.to = "provider") => ~HasPayment(last.id)

\* C14: a refund is accepted only for a Completed payment and only for an
\* amount within what is left to refund, so the amount refunded never exceeds
\* the amount paid.
C14_RefundWithinRemaining ==
  /\ \A i \in DOMAIN payments : payments[i].refund <= payments[i].amount
  /\ (last.op = "refund" /\ last.ok)
       => /\ last.before.status = COMPLETED
          /\ last.after.refund <= last.before.amount

\* C15: a successful refund makes the payment Refunded exactly when it refunds
\* the payment in full; after a partial refund the payment stays Completed.
C15_RefundedIffFullyRefunded ==
  (last.op = "refund" /\ last.ok)
    => /\ last.after.status = REFUNDED <=> last.after.refund >= last.before.amount
       /\ last.after.refund < last.before.amount => last.after.status = COMPLETED

\* C16: after a full refund the payment is Refunded with commission 0 and net
\* 0; after a partial refund the commission is what it was.
C16_FullRefundReversesCommission ==
  (last.op = "refund" /\ last.ok)
    => IF last.after.refund >= last.before.amount
         THEN /\ last.after.status = REFUNDED
              /\ last.after.commissionAmount = 0
              /\ last.after.netAmount = 0
         ELSE last.after.commissionAmount = last.before.commissionAmount

\* C17: a cancel with refund: true makes the order Cancelled only once the
\* refund has gone through: no such cancel leaves the order Cancelled with a
\* payment that is still Completed.
C17_CancelWaitsForRefund ==
  [][\A w \in Workers :
       (pc[w] = "cancel_write" /\ pc'[w] = "idle" /\ loc[w].cancelDto.refund
          /\ orders'[loc[w].id].status = CANCELLED)
         => \A i \in PaymentsOf(loc[w].id) : payments'[i].status # COMPLETED]_vars

\* C18: a customer's cancel goes through only on an order the customer placed
\* and only while the order is Pending.
C18_CustomerCancelsOnlyPending ==
  (last.op = "cancel" /\ last.ok /\ RoleOf(last.user) = CUSTOMER)
    => /\ last.before.customerId = last.user
       /\ last.from = PENDING

\* C19: an employee's findOne, updateStatus or cancel goes through only on an
\* order of the restaurant the employee is assigned to.
C19_EmployeeWithinOwnRestaurant ==
  (last.op \in {"findOne", "updateStatus", "cancel"} /\ last.ok
     /\ RoleOf(last.user) = EMPLOYEE)
    => last.before.restaurantId = EmployeeRestaurant(last.user)

\* C20: an employee never has more than one Active shift, however clockIn and
\* clockOut calls follow or overlap one another.
C20_AtMostOneActiveShift ==
  \A e \in Employees : Cardinality(ShiftsOf(e, {ACTIVE})) <= 1

\* The half-open intervals [a, b) and [s, e) intersect.
Intersects(a, b, s, e) == a < e /\ s < b

\* C21: createShift turns a shift [s, e) down exactly when a Scheduled or
\* Active shift of the employee has an interval [a, b) with a < e and s < b,
\* and a call it turns down inserts no row.
C21_RejectsIffIntervalsIntersect ==
  [][\A w \in Workers :
       pc[w] = "shift_overlap"
         => /\ pc'[w] = "idle" => shifts' = shifts
            /\ pc'[w] = "idle"
                 <=> \E i \in ShiftsOf(loc[w].dto.employeeId, {SCHEDULED, ACTIVE}) :
                       Intersects(shifts[i].startTime, shifts[i].endTime,
                                  loc[w].dto.startTime, loc[w].dto.endTime)]_vars

\* C22: no two Scheduled or Active shifts of one employee have intervals
\* [start, end) that intersect.
C22_OpenShiftsDoNotIntersect ==
  \A i, j \in DOMAIN shifts :
    (/\ i # j
     /\ shifts[i].employeeId = shifts[j].employeeId
     /\ shifts[i].status \in {SCHEDULED, ACTIVE}
     /\ shifts[j].status \in {SCHEDULED, ACTIVE})
      => ~Intersects(shifts[i].startTime, shifts[i].endTime,
                     shifts[j].startTime, shifts[j].endTime)

\* C23: clockOut writes only to an Active shift, which it completes with
\* actualEnd = now, not before actualStart; a shift that is not Active is
\* left as it is, also by a second clockOut that overlaps the first.
C23_ClockOutOnlyOnActive ==
  [][\A w \in Workers :
       (pc[w] = "clockout_write" /\ pc'[w] = "idle")
         => IF shifts[loc[w].id].status = ACTIVE
              THEN /\ shifts'[loc[w].id].status = COMPLETED
                   /\ shifts'[loc[w].id].actualEndTime = loc[w].now
                   /\ shifts'[loc[w].id].actualStartTime <= shifts'[loc[w].id].actualEndTime
              ELSE shifts' = shifts]_vars

\* ------------------------------------------------ EmployeesService: invites
USED == "USED"
EXPIRED == "EXPIRED"
REVOKED == "REVOKED"
InviteLinkStatus == {ACTIVE, USED, EXPIRED, REVOKED}

\* verifyRestaurantAccess: what the caller gets for a restaurant id. The
\* restaurant rows never change, so the read is folded into the step that
\* follows it.
VerifyRestaurantAccess(restaurantId, u) ==
  IF RoleOf(u) = SUPERADMIN THEN "ok"
  ELSE IF restaurantId \notin Restaurants THEN "notfound"
  ELSE IF RoleOf(u) = RESTAURANT_OWNER /\ RestaurantRow(restaurantId).ownerId # u
    THEN "forbidden"
  ELSE "ok"

\* createInviteLink: verifyRestaurantAccess and prisma.inviteLink.create.
CreateInviteLink(w, dto, u) ==
  /\ pc[w] = "idle"
  /\ LET access == VerifyRestaurantAccess(dto.restaurantId, u)
         row == [restaurantId |-> dto.restaurantId, status |-> ACTIVE,
                 expiresAt |-> dto.expiresAt,
                 maxUses |-> IF "maxUses" \in DOMAIN dto THEN dto.maxUses ELSE 1,
                 usedCount |-> 0]
     IN IF access # "ok"
          THEN /\ last' = Response("createInviteLink", FALSE, 0, u, None, access,
                                   NoRow, NoRow)
               /\ UNCHANGED invites
        ELSE /\ invites' = Append(invites, row)
             /\ last' = Response("createInviteLink", TRUE, Len(invites) + 1, u,
                                 None, ACTIVE, NoRow, row)
  /\ UNCHANGED <<users, employees, shifts, orders, now, tz, pc, loc, payState>>

\* useInviteLink, up to the await of prisma.employee.findFirst: the invite is
\* read and checked outside the transaction.
UseInviteLinkFind(w, dto, u) ==
  /\ pc[w] = "idle"
  /\ LET id == dto.token
         refused(why, row) ==
           /\ last' = Response("useInviteLink", FALSE, id, u, row.status, why, row, row)
           /\ UNCHANGED <<pc, loc>>
     IN IF id \notin DOMAIN invites THEN refused("notfound", NoRow)
        ELSE LET inviteLink == invites[id]
             IN IF inviteLink.status # ACTIVE THEN refused("status", inviteLink)
                ELSE IF now > inviteLink.expiresAt THEN refused("expired", inviteLink)
                ELSE IF inviteLink.usedCount >= inviteLink.maxUses
                  THEN refused("maxuses", inviteLink)
                ELSE /\ pc' = [pc EXCEPT ![w] = "invite_existing"]
                     /\ loc' = [loc EXCEPT ![w] =
                          [op |-> "useInviteLink", user |-> u, id |-> id, dto |-> dto,
                           inviteLink |-> inviteLink]]
                     /\ UNCHANGED last
  /\ UNCHANGED <<hrState, shifts, orders, now, tz, payState>>

\* useInviteLink: the result of prisma.employee.findFirst, up to the transaction.
UseInviteLinkExisting(w) ==
  /\ pc[w] = "invite_existing"
  /\ LET l == loc[w]
         existingEmployee ==
           \E i \in DOMAIN employees :
             /\ employees[i].userId = l.user
             /\ employees[i].restaurantId = l.inviteLink.restaurantId
     IN IF existingEmployee
          THEN /\ last' = Response("useInviteLink", FALSE, l.id, l.user,
                                   l.inviteLink.status, "already", l.inviteLink,
                                   l.inviteLink)
               /\ Done(w)
        ELSE /\ pc' = [pc EXCEPT ![w] = "invite_tx"]
             /\ UNCHANGED <<loc, last>>
  /\ UNCHANGED <<hrState, shifts, orders, now, tz, payState>>

\* useInviteLink: the transaction, prisma.employee.create and
\* prisma.inviteLink.update. usedCount is incremented in the database; the new
\* status is computed from the invite as the request read it.
UseInviteLinkTransaction(w) ==
  /\ pc[w] = "invite_tx"
  /\ LET l == loc[w]
         inviteLink == l.inviteLink
         employee == [userId |-> l.user, restaurantId |-> inviteLink.restaurantId,
                      phone |-> l.dto.phone, isActive |-> TRUE]
         row == [invites[l.id] EXCEPT
                   !.usedCount = @ + 1,
                   !.status = IF inviteLink.usedCount + 1 >= inviteLink.maxUses
                                THEN USED ELSE inviteLink.status]
     IN /\ employees' = Append(employees, employee)
        /\ invites' = [invites EXCEPT ![l.id] = row]
        /\ last' = Response("useInviteLink", TRUE, l.id, l.user, inviteLink.status,
                            row.status, inviteLink, row)
  /\ Done(w)
  /\ UNCHANGED <<users, shifts, orders, now, tz, payState>>

\* getInviteLinks: verifyRestaurantAccess and prisma.inviteLink.findMany. The
\* response carries the rows as they are stored and the time of the read.
GetInviteLinks(w, restaurantId, u) ==
  /\ pc[w] = "idle"
  /\ LET access == VerifyRestaurantAccess(restaurantId, u)
         ids == {i \in DOMAIN invites : invites[i].restaurantId = restaurantId}
     IN IF access # "ok"
          THEN last' = Response("getInviteLinks", FALSE, 0, u, None, access,
                                NoRow, NoRow)
        ELSE last' = Response("getInviteLinks", TRUE, 0, u, None, None,
                              [status |-> None, restaurantId |-> restaurantId],
                              [status |-> None, now |-> now,
                               rows |-> [i \in ids |-> invites[i]]])
  /\ UNCHANGED <<hrState, shifts, orders, now, tz, pc, loc, payState>>

\* revokeInviteLink, up to the await of prisma.inviteLink.update.
RevokeInviteLinkFind(w, id, u) ==
  /\ pc[w] = "idle"
  /\ LET refused(why, row) ==
           /\ last' = Response("revokeInviteLink", FALSE, id, u, row.status, why,
                               row, row)
           /\ UNCHANGED <<pc, loc>>
     IN IF id \notin DOMAIN invites THEN refused("notfound", NoRow)
        ELSE LET inviteLink == invites[id]
             IN IF /\ RoleOf(u) = RESTAURANT_OWNER
                   /\ RestaurantRow(inviteLink.restaurantId).ownerId # u
                  THEN refused("forbidden", inviteLink)
                ELSE /\ pc' = [pc EXCEPT ![w] = "invite_revoke"]
                     /\ loc' = [loc EXCEPT ![w] =
                          [op |-> "revokeInviteLink", user |-> u, id |-> id,
                           inviteLink |-> inviteLink]]
                     /\ UNCHANGED last
  /\ UNCHANGED <<hrState, shifts, orders, now, tz, payState>>

\* revokeInviteLink: prisma.inviteLink.update, whatever the status is by now.
RevokeInviteLinkUpdate(w) ==
  /\ pc[w] = "invite_revoke"
  /\ LET l == loc[w]
         row == [invites[l.id] EXCEPT !.status = REVOKED]
     IN /\ invites' = [invites EXCEPT ![l.id] = row]
        /\ last' = Response("revokeInviteLink", TRUE, l.id, l.user,
                            l.inviteLink.status, REVOKED, l.inviteLink, row)
  /\ Done(w)
  /\ UNCHANGED <<users, employees, shifts, orders, now, tz, payState>>

\* ---------------------------------------------------------------- AuthService
\* refreshToken: the role of the new token is the role of the caller's user row.
RefreshToken(w, u) ==
  /\ pc[w] = "idle"
  /\ users[u] # None
  /\ last' = Response("refreshToken", TRUE, 0, u, None, users[u], NoRow, NoRow)
  /\ UNCHANGED <<hrState, shifts, orders, now, tz, pc, loc, payState>>

\* --------------------------------------------------------------- invite specs
MaxInvites == 1
\* An invite for one use (maxUses left out) or for two, running out tomorrow.
CreateInviteLinkDtos ==
  [restaurantId : {"r1"}, expiresAt : {2 * TicksPerDay}]
    \cup [restaurantId : {"r1"}, expiresAt : {2 * TicksPerDay}, maxUses : {2}]
InviteManagers == {"owner1", "owner2"}
InviteCustomers == {"cust1", "cust2"}
UseInviteLinkDtos == [token : 1..MaxInvites, phone : {"ph2"}]

InviteRequest(w, customers) ==
  \/ /\ Len(invites) < MaxInvites
     /\ \E dto \in CreateInviteLinkDtos, u \in InviteManagers : CreateInviteLink(w, dto, u)
  \/ \E dto \in UseInviteLinkDtos, u \in customers : UseInviteLinkFind(w, dto, u)
  \/ \E id \in 1..MaxInvites, u \in InviteManagers : RevokeInviteLinkFind(w, id, u)
  \/ \E u \in InviteManagers : GetInviteLinks(w, "r1", u)
  \/ \E u \in InviteCustomers : RefreshToken(w, u)

InviteStep(w) ==
  \/ UseInviteLinkExisting(w)
  \/ UseInviteLinkTransaction(w)
  \/ RevokeInviteLinkUpdate(w)

\* Requests one after the other.
InviteSeqNext ==
  \/ AllIdle /\ InviteRequest("w1", InviteCustomers)
  \/ InviteStep("w1")
  \/ Tick
InviteSeqSpec == Init /\ [][InviteSeqNext]_vars

\* Requests that overlap: each worker serves one customer.
InviteCustomer(w) == IF w = "w1" THEN "cust1" ELSE "cust2"
InviteNext ==
  \/ \E w \in Workers : InviteRequest(w, {InviteCustomer(w)})
  \/ \E w \in Workers : InviteStep(w)
InviteSpec == Init /\ [][InviteNext]_vars

\* The sum of usedCount over the first n invites.
RECURSIVE UsedCountSum(_)
UsedCountSum(n) == IF n = 0 THEN 0 ELSE invites[n].usedCount + UsedCountSum(n - 1)

\* C24: an invite is never used more often than maxUses, and the employees
\* created through invites are as many as the uses the invites count.
C24_UsedCountWithinMaxUses ==
  /\ \A i \in DOMAIN invites : invites[i].usedCount <= invites[i].maxUses
  /\ Len(employees) - Len(SeedEmployees) = UsedCountSum(Len(invites))

\* C25: an invite's status is USED exactly when its usedCount has reached
\* maxUses.
C25_UsedIffUsedUp ==
  \A i \in DOMAIN invites :
    invites[i].status = USED <=> invites[i].usedCount = invites[i].maxUses

\* C26: past expiresAt an invite is not observed as Active: a consume that got
\* past the checks holds an invite that has not run out, and the rows
\* getInviteLinks returns past their expiresAt do not have status Active.
C26_PastExpiryNotActive ==
  /\ \A w \in Workers :
       pc[w] \in {"invite_existing", "invite_tx"} => now <= loc[w].inviteLink.expiresAt
  /\ (last.op = "getInviteLinks" /\ last.ok)
       => \A i \in DOMAIN last.after.rows :
            last.after.now > last.after.rows[i].expiresAt
              => last.after.rows[i].status # ACTIVE

\* ---------------------------------------------------------------- UsersService
\* prisma.user.count({ where: { role: SUPERADMIN } }).
SuperadminCount == Cardinality({a \in Accounts : users[a] = SUPERADMIN})

\* remove, up to the await that follows findOne: the count of superadmins
\* when the user is one, the delete otherwise. currentUser is the caller's
\* user row as the request found it.
UserRemoveFind(w, id, u) ==
  /\ pc[w] = "idle"
  /\ users[u] # None
  /\ LET refused(why) ==
           /\ last' = Response("removeUser", FALSE, 0, u, users[id], why, NoRow, NoRow)
           /\ UNCHANGED <<pc, loc>>
     IN IF users[u] # SUPERADMIN THEN refused("forbidden")
        ELSE IF users[id] = None THEN refused("notfound")
        ELSE /\ pc' = [pc EXCEPT ![w] =
                  IF users[id] = SUPERADMIN THEN "user_remove_count"
                  ELSE "user_remove_delete"]
             /\ loc' = [loc EXCEPT ![w] =
                  [op |-> "removeUser", user |-> u, id |-> id, role |-> users[id]]]
             /\ UNCHANGED last
  /\ UNCHANGED <<hrState, shifts, orders, now, tz, payState>>

\* remove: the result of the count, up to the await of prisma.user.delete.
UserRemoveCount(w) ==
  /\ pc[w] = "user_remove_count"
  /\ LET l == loc[w]
     IN IF SuperadminCount <= 1
          THEN /\ last' = Response("removeUser", FALSE, 0, l.user, l.role,
                                   "lastsuperadmin", NoRow, NoRow)
               /\ Done(w)
        ELSE /\ pc' = [pc EXCEPT ![w] = "user_remove_delete"]
             /\ UNCHANGED <<loc, last>>
  /\ UNCHANGED <<hrState, shifts, orders, now, tz, payState>>

\* remove: prisma.user.delete, which throws when the row is gone.
UserRemoveDelete(w) ==
  /\ pc[w] = "user_remove_delete"
  /\ LET l == loc[w]
     IN IF users[l.id] = None
          THEN /\ last' = Response("removeUser", FALSE, 0, l.user, l.role, "gone",
                                   NoRow, NoRow)
               /\ UNCHANGED users
        ELSE /\ users' = [users EXCEPT ![l.id] = None]
             /\ last' = Response("removeUser", TRUE, 0, l.user, l.role, None,
                                 NoRow, NoRow)
  /\ Done(w)
  /\ UNCHANGED <<employees, invites, shifts, orders, now, tz, payState>>

\* The await a role change from one role to another goes to next: the count
\* of validateRoleChange that applies to the user's role, or the update.
RoleChangeNext(role, newRole) ==
  IF role # newRole /\ role \in {SUPERADMIN, RESTAURANT_OWNER, EMPLOYEE}
    THEN "user_role_validate" ELSE "user_role_update"

\* updateRole, up to the await that follows findOne.
UserUpdateRoleFind(w, id, role, u) ==
  /\ pc[w] = "idle"
  /\ users[u] # None
  /\ LET answer(ok, why) ==
           /\ last' = Response("updateRole", ok, 0, u, users[id], why, NoRow, NoRow)
           /\ UNCHANGED <<pc, loc>>
     IN IF users[u] # SUPERADMIN THEN answer(FALSE, "forbidden")
        ELSE IF users[id] = None THEN answer(FALSE, "notfound")
        ELSE IF users[id] = role THEN answer(TRUE, role)
        ELSE /\ pc' = [pc EXCEPT ![w] = RoleChangeNext(users[id], role)]
             /\ loc' = [loc EXCEPT ![w] =
                  [op |-> "updateRole", user |-> u, id |-> id, role |-> users[id],
                   dto |-> [role |-> role]]]
             /\ UNCHANGED last
  /\ UNCHANGED <<hrState, shifts, orders, now, tz, payState>>

\* update, up to the await that follows findOne.
UserUpdateFind(w, id, dto, u) ==
  /\ pc[w] = "idle"
  /\ users[u] # None
  /\ LET refused(why) ==
           /\ last' = Response("updateUser", FALSE, 0, u, users[id], why, NoRow, NoRow)
           /\ UNCHANGED <<pc, loc>>
         hasRole == "role" \in DOMAIN dto
     IN IF users[id] = None THEN refused("notfound")
        ELSE IF u # id /\ users[u] # SUPERADMIN THEN refused("forbidden")
        ELSE IF hasRole /\ users[u] # SUPERADMIN THEN refused("forbidden")
        ELSE /\ pc' = [pc EXCEPT ![w] =
                  IF hasRole THEN RoleChangeNext(users[id], dto.role)
                  ELSE "user_role_update"]
             /\ loc' = [loc EXCEPT ![w] =
                  [op |-> "updateUser", user |-> u, id |-> id, role |-> users[id],
                   dto |-> dto]]
             /\ UNCHANGED last
  /\ UNCHANGED <<hrState, shifts, orders, now, tz, payState>>

\* validateRoleChange: the result of its count, up to the await of
\* prisma.user.update.
UserRoleValidate(w) ==
  /\ pc[w] = "user_role_validate"
  /\ LET l == loc[w]
         refused(why) ==
           /\ last' = Response(l.op, FALSE, 0, l.user, l.role, why, NoRow, NoRow)
           /\ Done(w)
     IN IF l.role = SUPERADMIN /\ SuperadminCount <= 1 THEN refused("lastsuperadmin")
        ELSE IF /\ l.role = RESTAURANT_OWNER
                /\ \E r \in Restaurants : RestaurantRow(r).ownerId = l.id
          THEN refused("ownsrestaurants")
        ELSE IF /\ l.role = EMPLOYEE
                /\ \E i \in DOMAIN employees :
                     employees[i].userId = l.id /\ employees[i].isActive
          THEN refused("activeemployee")
        ELSE /\ pc' = [pc EXCEPT ![w] = "user_role_update"]
             /\ UNCHANGED <<loc, last>>
  /\ UNCHANGED <<hrState, shifts, orders, now, tz, payState>>

\* update and updateRole: prisma.user.update with the fields the dto carries,
\* which throws when the row is gone.
UserRoleUpdate(w) ==
  /\ pc[w] = "user_role_update"
  /\ LET l == loc[w]
         role == IF "role" \in DOMAIN l.dto THEN l.dto.role ELSE users[l.id]
     IN IF users[l.id] = None
          THEN /\ last' = Response(l.op, FALSE, 0, l.user, l.role, "gone", NoRow, NoRow)
               /\ UNCHANGED users
        ELSE /\ users' = [users EXCEPT ![l.id] = role]
             /\ last' = Response(l.op, TRUE, 0, l.user, l.role, role, NoRow, NoRow)
  /\ Done(w)
  /\ UNCHANGED <<employees, invites, shifts, orders, now, tz, payState>>

\* ----------------------------------------------------------------- user specs
\* The seeded superadmin and the account it can promote act on each other
\* and on the seeded employee.
UserCallers == {"admin", "admin2"}
UserIds == {"admin", "admin2", "emp1"}
NewRoles == {SUPERADMIN, CUSTOMER}
UpdateUserDtos == [role : NewRoles] \cup [name : {"n"}]

UserRequest(w) ==
  \/ \E id \in UserIds, u \in UserCallers : UserRemoveFind(w, id, u)
  \/ \E id \in UserIds, role \in NewRoles, u \in UserCallers :
       UserUpdateRoleFind(w, id, role, u)
  \/ \E id \in UserIds, dto \in UpdateUserDtos, u \in UserCallers :
       UserUpdateFind(w, id, dto, u)

UserStep(w) ==
  \/ UserRemoveCount(w)
  \/ UserRemoveDelete(w)
  \/ UserRoleValidate(w)
  \/ UserRoleUpdate(w)

\* Requests one after the other.
UserSeqNext ==
  \/ AllIdle /\ UserRequest("w1")
  \/ UserStep("w1")
UserSeqSpec == Init /\ [][UserSeqNext]_vars

\* Requests that overlap.
UserNext ==
  \/ \E w \in Workers : UserRequest(w)
  \/ \E w \in Workers : UserStep(w)
UserSpec == Init /\ [][UserNext]_vars

\* C27: the user table always holds at least one superadmin.
C27_SuperadminExists == \E a \in Accounts : users[a] = SUPERADMIN

\* ---------------------------------------------- EmployeesService: employees
\* findOne on the employee table: what the caller gets for an employee id.
EmployeeTableFindOne(id, u) ==
  IF id \notin DOMAIN employees THEN "notfound"
  ELSE IF /\ RoleOf(u) = RESTAURANT_OWNER
          /\ RestaurantRow(employees[id].restaurantId).ownerId # u THEN "forbidden"
  ELSE IF RoleOf(u) = EMPLOYEE /\ employees[id].userId # u THEN "forbidden"
  ELSE "ok"

\* create, up to the await of prisma.employee.create: verifyRestaurantAccess
\* and the findFirst by phone and restaurant, active or not.
EmployeeCreateFind(w, dto, u) ==
  /\ pc[w] = "idle"
  /\ LET access == VerifyRestaurantAccess(dto.restaurantId, u)
         existingEmployee ==
           \E i \in DOMAIN employees :
             /\ employees[i].phone = dto.phone
             /\ employees[i].restaurantId = dto.restaurantId
         refused(why) ==
           /\ last' = Response("createEmployee", FALSE, 0, u, None, why, NoRow, NoRow)
           /\ UNCHANGED <<pc, loc>>
     IN IF access # "ok" THEN refused(access)
        ELSE IF existingEmployee THEN refused("phone")
        ELSE /\ pc' = [pc EXCEPT ![w] = "employee_create"]
             /\ loc' = [loc EXCEPT ![w] =
                  [op |-> "createEmployee", user |-> u, dto |-> dto]]
             /\ UNCHANGED last
  /\ UNCHANGED <<hrState, shifts, orders, now, tz, payState>>

\* create: prisma.employee.create.
EmployeeCreateInsert(w) ==
  /\ pc[w] = "employee_create"
  /\ LET l == loc[w]
         row == [userId |-> None, restaurantId |-> l.dto.restaurantId,
                 phone |-> l.dto.phone,
                 isActive |-> IF "isActive" \in DOMAIN l.dto THEN l.dto.isActive
                              ELSE TRUE]
     IN /\ employees' = Append(employees, row)
        /\ last' = Response("createEmployee", TRUE, Len(employees) + 1, l.user,
                            None, None, NoRow, row)
  /\ Done(w)
  /\ UNCHANGED <<users, invites, shifts, orders, now, tz, payState>>

\* update, up to the await of prisma.employee.update: findOne.
EmployeeUpdateFind(w, id, dto, u) ==
  /\ pc[w] = "idle"
  /\ LET found == EmployeeTableFindOne(id, u)
     IN IF found # "ok"
          THEN /\ last' = Response("updateEmployee", FALSE, id, u, None, found,
                                   NoRow, NoRow)
               /\ UNCHANGED <<pc, loc>>
        ELSE /\ pc' = [pc EXCEPT ![w] = "employee_update"]
             /\ loc' = [loc EXCEPT ![w] =
                  [op |-> "updateEmployee", user |-> u, id |-> id, dto |-> dto,
                   employee |-> employees[id]]]
             /\ UNCHANGED last
  /\ UNCHANGED <<hrState, shifts, orders, now, tz, payState>>

\* update: prisma.employee.update with the fields the dto carries.
EmployeeUpdateWrite(w) ==
  /\ pc[w] = "employee_update"
  /\ LET l == loc[w]
         row == [f \in DOMAIN employees[l.id] |->
                   IF f \in DOMAIN l.dto THEN l.dto[f] ELSE employees[l.id][f]]
     IN /\ employees' = [employees EXCEPT ![l.id] = row]
        /\ last' = Response("updateEmployee", TRUE, l.id, l.user, None, None,
                            l.employee, row)
  /\ Done(w)
  /\ UNCHANGED <<users, invites, shifts, orders, now, tz, payState>>

\* remove, up to the await of prisma.employee.update: findOne.
EmployeeRemoveFind(w, id, u) ==
  /\ pc[w] = "idle"
  /\ LET found == EmployeeTableFindOne(id, u)
     IN IF found # "ok"
          THEN /\ last' = Response("removeEmployee", FALSE, id, u, None, found,
                                   NoRow, NoRow)
               /\ UNCHANGED <<pc, loc>>
        ELSE /\ pc' = [pc EXCEPT ![w] = "employee_remove"]
             /\ loc' = [loc EXCEPT ![w] =
                  [op |-> "removeEmployee", user |-> u, id |-> id,
                   employee |-> employees[id]]]
             /\ UNCHANGED last
  /\ UNCHANGED <<hrState, shifts, orders, now, tz, payState>>

\* remove: the soft delete, isActive: false.
EmployeeRemoveWrite(w) ==
  /\ pc[w] = "employee_remove"
  /\ LET l == loc[w]
         row == [employees[l.id] EXCEPT !.isActive = FALSE]
     IN /\ employees' = [employees EXCEPT ![l.id] = row]
        /\ last' = Response("removeEmployee", TRUE, l.id, l.user, None, None,
                            l.employee, row)
  /\ Done(w)
  /\ UNCHANGED <<users, invites, shifts, orders, now, tz, payState>>

\* ------------------------------------------------------------- employee specs
MaxEmployees == 3
Phones == {"ph1", "ph2"}
CreateEmployeeDtos ==
  [restaurantId : {"r1"}, phone : Phones]
    \cup [restaurantId : {"r1"}, phone : Phones, isActive : {FALSE}]
UpdateEmployeeDtos == [phone : Phones] \cup [isActive : BOOLEAN]
EmployeeManagers == {"owner1", "owner2"}
JoinInviteLinkDtos == [restaurantId : {"r1"}, expiresAt : {2 * TicksPerDay}]
JoinDtos == [token : 1..MaxInvites, phone : Phones]

\* Requests one after the other: owners keep the employee records, and a
\* customer joins through an invite.
EmployeeSeqRequest(w) ==
  \/ /\ Len(employees) < MaxEmployees
     /\ \E dto \in CreateEmployeeDtos, u \in EmployeeManagers :
          EmployeeCreateFind(w, dto, u)
  \/ \E id \in 1..MaxEmployees, dto \in UpdateEmployeeDtos, u \in EmployeeManagers :
       EmployeeUpdateFind(w, id, dto, u)
  \/ \E id \in 1..MaxEmployees, u \in EmployeeManagers : EmployeeRemoveFind(w, id, u)
  \/ /\ Len(invites) < MaxInvites
     /\ \E dto \in JoinInviteLinkDtos : CreateInviteLink(w, dto, "owner1")
  \/ /\ Len(employees) < MaxEmployees
     /\ \E dto \in JoinDtos : UseInviteLinkFind(w, dto, "cust1")

EmployeeStep(w) ==
  \/ EmployeeCreateInsert(w)
  \/ EmployeeUpdateWrite(w)
  \/ EmployeeRemoveWrite(w)
  \/ UseInviteLinkExisting(w)
  \/ UseInviteLinkTransaction(w)

EmployeeSeqNext ==
  \/ AllIdle /\ EmployeeSeqRequest("w1")
  \/ EmployeeStep("w1")
EmployeeSeqSpec == Init /\ [][EmployeeSeqNext]_vars

\* C28: no two active employees of one restaurant have the same phone number.
C28_ActivePhonesUnique ==
  \A i, j \in DOMAIN employees :
    (/\ i # j
     /\ employees[i].isActive
     /\ employees[j].isActive
     /\ employees[i].restaurantId = employees[j].restaurantId)
      => employees[i].phone # employees[j].phone

\* C29: a token refresh for a user who has become an employee through an
\* invite issues a token with role Employee.
C29_RefreshIssuesEmployeeRole ==
  (/\ last.op = "refreshToken"
   /\ last.ok
   /\ \E i \in DOMAIN employees :
        i > Len(SeedEmployees) /\ employees[i].userId = last.user)
    => last.to = EMPLOYEE

\* C30: the amount of every payment row equals the total stored on its order.
C30_AmountIsOrderTotal ==
  \A i \in DOMAIN payments :
    payments[i].amount = orders[payments[i].orderId].totalAmount

====
